---- MODULE Spec2Model ----
(***************************************************************************)
(* Model of the MHTML blob indexer (src/src/mhtmlBlobIndexer.ts):          *)
(*   main -> MhtmlBlobIndexer.indexAllMhtmlFiles                           *)
(*        -> indexSourceMhtmlFiles (one partition, batches of tasks)       *)
(*        -> downloadBlob / indexMhtmlFile (retry loop, timeout, breaker). *)
(* One action per stretch of code between two suspension points (await)    *)
(* of the single-threaded event loop.                                      *)
(***************************************************************************)
EXTENDS Integers, Sequences, FiniteSets, TLC

\* ------------------------------------------------------------- bounds
MaxBlobs == 2
MaxListing == 5
MaxConcurrency == 2
MaxRetries == 2
MaxCeiling == 2
MaxOther == 1
MaxRequests == 3

\* -------------------------------------------------- program constants
TIMEOUT_BACKOFF_MS == 2000
NETWORK_BACKOFF_MS == 1000

\* the hard-coded defaults of parseInt(process.env.X || '<default>')
DEFAULT_CONCURRENCY == 3
DEFAULT_MAX_RETRIES == 3
DEFAULT_MAX_CONSECUTIVE_TIMEOUTS == 10
DEFAULT_DELAY_MS == 500

\* an option the caller did not pass, an environment variable that is not set
Undefined == -1

\* the status codes the endpoint answers with: one 2xx and one non-2xx
Statuses == {200, 500}

\* the values of targetSource: the three recognized ones and any other string
Selectors == {"qast", "stock", "all", "other"}

VARIABLES
  args,                 \* process.argv: the value after --concurrency and after --delay
  options,              \* the options object the caller gives to indexAllMhtmlFiles
  env,                  \* process.env: the settings, and whether the credentials and
                        \* the endpoint URL are set
  proc,                 \* "running" | "completed" | "breaker" | "failed"
  pc,                   \* "main" | "connect" | "list" | "batch" | "pause" | "return" | "end"
  source,               \* partition of the indexSourceMhtmlFiles call in progress
  allBlobs,             \* names listed for the partition in progress
  i,                    \* batch loop index of indexSourceMhtmlFiles
  batch,                \* the tasks of batchPromises, in batch order
  results,              \* results of indexSourceMhtmlFiles (local array)
  report,               \* value returned by the indexSourceMhtmlFiles call in progress
  out,                  \* results object of indexAllMhtmlFiles
  consecutiveTimeouts,  \* this.consecutiveTimeouts
  since,                \* history: timeouts observed since the last success (or the start)
  groups,               \* history: sizes of the batches started in the current partition
  listed,               \* history: the objects the store listed for the partition, each
                        \* by whether its name ends with .mhtml
  sleep,                \* ms of the setTimeout the batch loop is waiting on, 0 when none
  rag                   \* the batchIndexDocuments call of a RagIndexer: its options,
                        \* locals and the members of its current batch

vars == <<args, options, env, proc, pc, source, allBlobs, i, batch, results,
          report, out, consecutiveTimeouts, since, groups, listed, sleep, rag>>

\* what no step of MhtmlBlobIndexer changes: its configuration, and the
\* RagIndexer, which is another object
cfgVars == <<args, options, env, rag>>

\* what no step of RagIndexer changes
indexerVars == <<args, options, env, proc, pc, source, allBlobs, i, batch, results,
                 report, out, consecutiveTimeouts, since, groups, listed, sleep>>

\* ------------------------------------------------------------ helpers
Min(a, b) == IF a < b THEN a ELSE b

\* slice(from, to) of a JavaScript array, 0-based, end exclusive
Slice(seq, from, to) ==
  IF Min(to, Len(seq)) <= from THEN <<>>
  ELSE SubSeq(seq, from + 1, Min(to, Len(seq)))

\* ------------------------------------------------------ IndexingResult
NoResult ==
  [success |-> FALSE, blobName |-> 0, source |-> "none", error |-> "none", statusCode |-> 0]

SuccessResult(name, src, status) ==
  [success |-> TRUE, blobName |-> name, source |-> src, error |-> "none", statusCode |-> status]

FailedResult(name, src, err, status) ==
  [success |-> FALSE, blobName |-> name, source |-> src, error |-> err, statusCode |-> status]

\* ------------------------------------------------------------- reports
NoReport == [present |-> FALSE, total |-> 0, success |-> 0, failed |-> 0, results |-> <<>>]

EmptyReport == [present |-> TRUE, total |-> 0, success |-> 0, failed |-> 0, results |-> <<>>]

DryRunReportUncounted(blobs) ==
  [present |-> TRUE, total |-> 0, success |-> 0, failed |-> 0, results |-> <<>>]

\* return { total: allBlobs.length, success: 0, failed: 0, results: [] }
DryRunReport(blobs) ==
  [present |-> TRUE, total |-> Len(blobs), success |-> 0, failed |-> 0, results |-> <<>>]

\* results.filter(r => r.success).length
CountSuccess(res) == Cardinality({k \in 1..Len(res) : res[k].success})

CountFailedWithoutStatus(res) ==
  Cardinality({k \in 1..Len(res) : ~res[k].success /\ res[k].statusCode = 0})

\* results.filter(r => !r.success).length
CountFailed(res) == Cardinality({k \in 1..Len(res) : ~res[k].success})

MakeReport(res) ==
  [present |-> TRUE, total |-> Len(res), success |-> CountSuccess(res),
   failed |-> CountFailed(res), results |-> res]

CombineOverwrite(c, r) ==
  [total |-> r.total, success |-> r.success, failed |-> r.failed]

\* results.combined.total += ..., .success += ..., .failed += ...
Combine(c, r) ==
  [total |-> c.total + r.total, success |-> c.success + r.success,
   failed |-> c.failed + r.failed]

\* ------------------------------------------------------- configuration
\* parseInt(process.env.X || '<default>') for a variable that is unset or
\* holds a number
EnvInt(value, default) == IF value = Undefined THEN default ELSE value

ConcurrencyEnvFirst ==
  IF env.CONCURRENCY = Undefined
  THEN (IF options.concurrency = Undefined THEN DEFAULT_CONCURRENCY ELSE options.concurrency)
  ELSE env.CONCURRENCY

\* parseInt(<the argument after the flag>) || <default> , for an argument that
\* is a number: 0 is falsy and gives the default
ArgInt(value, default) == IF value = 0 THEN default ELSE value

\* a command line without --concurrency and without --delay
NoArgs == [concurrency |-> Undefined, delay |-> Undefined]

\* const { concurrency = parseInt(process.env.CONCURRENCY || '3') } = options
Concurrency ==
  IF options.concurrency = Undefined
  THEN EnvInt(env.CONCURRENCY, DEFAULT_CONCURRENCY)
  ELSE options.concurrency

\* const { delayMs = parseInt(process.env.DELAY_MS || '500') } = options
DelayMs ==
  IF options.delayMs = Undefined
  THEN EnvInt(env.DELAY_MS, DEFAULT_DELAY_MS)
  ELSE options.delayMs

batchDelayAsItemDelay == DelayMs

\* const batchDelayMs = 500 : the pause between two batches
batchDelayMs == 500

\* maxRetries of indexMhtmlFile: the call of indexSourceMhtmlFiles passes no
\* argument for it, so it is the default value of the parameter
MaxRetriesArg == EnvInt(env.MAX_RETRIES, DEFAULT_MAX_RETRIES)

\* this.MAX_CONSECUTIVE_TIMEOUTS, set by the constructor
MAX_CONSECUTIVE_TIMEOUTS ==
  EnvInt(env.MAX_CONSECUTIVE_TIMEOUTS, DEFAULT_MAX_CONSECUTIVE_TIMEOUTS)

\* this.indexEndpoint, set by the constructor
IndexEndpoint == IF env.RAG_API_ENDPOINT THEN "configured" ELSE "hard-coded"

\* ----------------------------------------------------------- documents
\* a document by what the two extraction functions look at: what the pattern
\* /Content-Location:\s*(.+)/i finds in its bytes ("absent": no match,
\* "blank": a match whose captured text trims to the empty string, "url": a
\* match with a text left), and the form of its blob name ("qast_id":
\* ...qast_<digits>.mhtml, "stock_id": ...stock_<digits>.mhtml, "plain": neither)
Documents == [header : {"absent", "blank", "url"}, name : {"qast_id", "stock_id", "plain"}]

NoDocument == [header |-> "unread", name |-> "unread"]

\* a document with a Content-Location header and a name of neither form
PlainDocument == [header |-> "url", name |-> "plain"]

\* extractContentLocationUrl(fileBuffer): the trimmed captured text, or undefined
extractContentLocationUrl(doc) ==
  IF doc.header = "absent" THEN "undefined"
  ELSE IF doc.header = "blank" THEN ""
  ELSE "location-url"

extractSourceUrlAnyPartition(src, doc) ==
  IF doc.name = "stock_id" THEN "stock-url"
  ELSE IF doc.name = "qast_id" THEN "qast-url"
  ELSE "undefined"

\* extractSourceUrl(source, blobName): the URL built from the id in the name,
\* or undefined when the name has not the form of the partition
extractSourceUrl(src, doc) ==
  IF src = "stock"
  THEN (IF doc.name = "stock_id" THEN "stock-url" ELSE "undefined")
  ELSE IF src = "qast"
  THEN (IF doc.name = "qast_id" THEN "qast-url" ELSE "undefined")
  ELSE "undefined"

\* !sourceUrl : undefined and the empty string are falsy
Falsy(url) == url \in {"undefined", ""}

SourceUrlOfRemembering(src, doc) ==
  IF consecutiveTimeouts > 0 THEN "undefined"
  ELSE IF Falsy(extractContentLocationUrl(doc))
  THEN extractSourceUrl(src, doc)
  ELSE extractContentLocationUrl(doc)

\* let sourceUrl = extractContentLocationUrl(...); if (!sourceUrl) sourceUrl = extractSourceUrl(...)
SourceUrlOf(src, doc) ==
  IF Falsy(extractContentLocationUrl(doc))
  THEN extractSourceUrl(src, doc)
  ELSE extractContentLocationUrl(doc)

\* if (sourceUrl) formData.append('source_url', sourceUrl) : the field of the
\* form, "none" when it is not appended
FormSourceUrl(url) == IF Falsy(url) THEN "none" ELSE url

\* --------------------------------------------------------------- tasks
NewTaskNoDelay(name, index) ==
  [blobName |-> name,
   pc |-> "download",
   attempt |-> 0, wait |-> 0,
   status |-> 0, result |-> NoResult,
   sent |-> 0, nTimeout |-> 0,
   doc |-> NoDocument, sourceUrl |-> "unset", source_url |-> "unset",
   endpoint |-> "none", timer |-> "none"]

\* one member of batch.map(async (blobName, index) => ...), at its start
NewTask(name, index) ==
  [blobName |-> name,
   pc |-> IF index > 0 THEN "delay" ELSE "download",
   attempt |-> 0, wait |-> IF index > 0 THEN DelayMs ELSE 0,
   status |-> 0, result |-> NoResult,
   sent |-> 0, nTimeout |-> 0,
   doc |-> NoDocument, sourceUrl |-> "unset", source_url |-> "unset",
   endpoint |-> "none", timer |-> "none"]

NewBatchOneMore(blobs, from, conc) ==
  LET names == Slice(blobs, from, from + conc + 1)
  IN  [k \in 1..Len(names) |-> NewTask(names[k], k - 1)]

NewBatch(blobs, from, conc) ==
  LET names == Slice(blobs, from, from + conc)
  IN  [k \in 1..Len(names) |-> NewTask(names[k], k - 1)]

SomeSettled(tasks) == \E k \in 1..Len(tasks) : tasks[k].pc = "settled"

\* Promise.allSettled(batchPromises): every member has returned its result
AllSettled(tasks) == \A k \in 1..Len(tasks) : tasks[k].pc = "settled"

LoopTestStrict(attempt, maxRetries) == attempt < maxRetries

LoopTestExtra(attempt, maxRetries) == attempt <= maxRetries + 1

\* for (let attempt = ...; attempt <= maxRetries; attempt++) : the loop test
LoopTest(attempt, maxRetries) == attempt <= maxRetries

\* the loop head of indexMhtmlFile reached with attempt = a: either the next
\* fetch is issued, or the loop is left and the final failure is returned
ForLoop(t, a, src, maxRetries) ==
  IF LoopTest(a, maxRetries)
  THEN [t EXCEPT !.pc = "fetch", !.attempt = a, !.sent = @ + 1, !.wait = 0,
                 !.source_url = FormSourceUrl(t.sourceUrl), !.endpoint = IndexEndpoint,
                 !.timer = "armed"]
  ELSE [t EXCEPT !.pc = "settled", !.attempt = a, !.wait = 0,
                 !.result = FailedResult(t.blobName, src, "retries", 0)]

\* ---------------------------------------------------------------- Init
\* the program at its start, for every options object and environment of
\* the model: each setting is absent or one of the small values
Fresh ==
  /\ proc = "running"
  /\ pc = "main"
  /\ source = "none"
  /\ allBlobs = <<>>
  /\ i = 0
  /\ batch = <<>>
  /\ results = <<>>
  /\ report = NoReport
  /\ out = [qast |-> NoReport, stock |-> NoReport,
            combined |-> [total |-> 0, success |-> 0, failed |-> 0]]
  /\ consecutiveTimeouts = 0
  /\ since = 0
  /\ groups = <<>>
  /\ listed = <<>>
  /\ sleep = 0

\* no batchIndexDocuments call
NoRag ==
  [variant |-> "none", n |-> 0, batchSize |-> 0, maxRetries |-> 0, pc |-> "idle",
   i |-> 0, batch |-> <<>>, results |-> <<>>, successCount |-> 0, failedCount |-> 0,
   sleep |-> 0, batches |-> 0]

\* indexAllMhtmlFiles called with an options object of the caller's making
Boot ==
  /\ rag = NoRag
  /\ args = NoArgs
  /\ options \in [targetSource : Selectors, dryRun : BOOLEAN,
                   concurrency : {Undefined} \cup 1..MaxConcurrency,
                   delayMs : {Undefined, 200},
                   maxRetries : {Undefined, 1},
                   maxConsecutiveTimeouts : {Undefined, 1}]
  /\ env \in [CONCURRENCY : {Undefined} \cup 1..MaxConcurrency,
               DELAY_MS : {Undefined, 300},
               MAX_RETRIES : {Undefined} \cup 0..MaxRetries,
               MAX_CONSECUTIVE_TIMEOUTS : {Undefined} \cup 1..MaxCeiling,
               credentials : BOOLEAN,
               RAG_API_ENDPOINT : BOOLEAN]
  /\ Fresh

\* the caller passes targetSource, dryRun and concurrency; the environment
\* holds the credentials, the endpoint URL, MAX_RETRIES and
\* MAX_CONSECUTIVE_TIMEOUTS
Init ==
  /\ Boot
  /\ options.concurrency # Undefined
  /\ options.delayMs = Undefined /\ env.DELAY_MS = Undefined
  /\ options.maxRetries = Undefined /\ options.maxConsecutiveTimeouts = Undefined
  /\ env.CONCURRENCY = Undefined
  /\ env.MAX_RETRIES # Undefined /\ env.MAX_CONSECUTIVE_TIMEOUTS # Undefined
  /\ env.credentials /\ env.RAG_API_ENDPOINT

\* ------------------------------------------------ indexAllMhtmlFiles
\* entering indexSourceMhtmlFiles(s): runs to its first await, which is the
\* connectivity check, or the listing when dryRun skips the check
EnterSource(s) ==
  /\ source' = s
  /\ pc' = IF options.dryRun THEN "list" ELSE "connect"
  /\ proc' = proc
  /\ allBlobs' = <<>>
  /\ i' = 0
  /\ batch' = <<>>
  /\ results' = <<>>
  /\ report' = NoReport
  /\ groups' = <<>>
  /\ listed' = <<>>

FinishByFailures ==
  /\ pc' = "end"
  /\ proc' = IF report.failed > 0 THEN "failed" ELSE "completed"
  /\ UNCHANGED <<source, allBlobs, i, batch, results, report, groups, listed>>

\* indexAllMhtmlFiles returns its results object; main logs and the process ends
Finish ==
  /\ pc' = "end"
  /\ proc' = "completed"
  /\ UNCHANGED <<source, allBlobs, i, batch, results, report, groups, listed>>

ThrowAfterEmptyReport ==
  /\ proc' = "failed"
  /\ report' = EmptyReport
  /\ UNCHANGED <<pc, source, allBlobs, i, batch, results, groups, listed>>

\* a rejected await reaches main's catch, which calls process.exit(1)
Throw ==
  /\ proc' = "failed"
  /\ UNCHANGED <<pc, source, allBlobs, i, batch, results, report, groups, listed>>

RunsQastWhateverNamed(sel) == sel \in {"qast", "stock", "all"}

\* if (targetSource === 'qast' || targetSource === 'all')
RunsQast(sel) == sel = "qast" \/ sel = "all"

RunsStockUnlessQast(sel) == sel # "qast"

\* if (targetSource === 'stock' || targetSource === 'all')
RunsStock(sel) == sel = "stock" \/ sel = "all"

\* main: new MhtmlBlobIndexer(), whose constructor throws when the storage
\* credentials are missing, then indexAllMhtmlFiles(options)
StartWithStock ==
  /\ proc = "running" /\ pc = "main"
  /\ IF ~env.credentials THEN Throw
     ELSE IF RunsStock(options.targetSource) THEN EnterSource("stock")
     ELSE IF RunsQast(options.targetSource) THEN EnterSource("qast")
     ELSE Finish
  /\ UNCHANGED <<cfgVars, out, consecutiveTimeouts, since, sleep>>

Start ==
  /\ proc = "running" /\ pc = "main"
  /\ IF ~env.credentials THEN Throw
     ELSE IF RunsQast(options.targetSource) THEN EnterSource("qast")
     ELSE IF RunsStock(options.targetSource) THEN EnterSource("stock")
     ELSE Finish
  /\ UNCHANGED <<cfgVars, out, consecutiveTimeouts, since, sleep>>

\* results.qast = ... / results.stock = ... : the report as kept in the results
\* object. Its results array is never read again; it is kept here by its
\* length (total) only, the array itself being the one of `report` at return.
Kept(r) == [r EXCEPT !.results = <<>>]

ReturnStopsOnFailures ==
  /\ proc = "running" /\ pc = "return"
  /\ out' = [out EXCEPT ![source] = Kept(report), !.combined = Combine(@, report)]
  /\ IF source = "qast" /\ RunsStock(options.targetSource) /\ report.failed = 0
     THEN EnterSource("stock")
     ELSE Finish
  /\ UNCHANGED <<cfgVars, consecutiveTimeouts, since, sleep>>

\* the awaited indexSourceMhtmlFiles call has returned `report`
ReturnResetsCounter ==
  /\ proc = "running" /\ pc = "return"
  /\ out' = [out EXCEPT ![source] = Kept(report), !.combined = Combine(@, report)]
  /\ IF source = "qast" /\ RunsStock(options.targetSource) THEN EnterSource("stock")
     ELSE Finish
  /\ consecutiveTimeouts' = 0 /\ since' = 0
  /\ UNCHANGED <<cfgVars, sleep>>

Return ==
  /\ proc = "running" /\ pc = "return"
  /\ out' = [out EXCEPT ![source] = Kept(report), !.combined = Combine(@, report)]
  /\ IF source = "qast" /\ RunsStock(options.targetSource) THEN EnterSource("stock")
     ELSE Finish
  /\ UNCHANGED <<cfgVars, consecutiveTimeouts, since, sleep>>

\* --------------------------------------------- indexSourceMhtmlFiles
\* await this.blobServiceClient.getProperties()
Connect ==
  /\ proc = "running" /\ pc = "connect"
  /\ \E ok \in BOOLEAN :
       IF ok
       THEN /\ pc' = "list"
            /\ UNCHANGED <<proc, source, allBlobs, i, batch, results, report, groups,
                           listed>>
       ELSE Throw
  /\ UNCHANGED <<cfgVars, out, consecutiveTimeouts, since, sleep>>

\* the head of the batch loop reached with index from: the next batch is
\* started, or the loop is left and the report is returned
BatchLoop(blobs, from, res) ==
  IF from < Len(blobs)
  THEN /\ batch' = NewBatch(blobs, from, Concurrency)
       /\ groups' = Append(groups, Len(batch'))
       /\ pc' = "batch"
       /\ report' = NoReport
  ELSE /\ batch' = <<>>
       /\ groups' = groups
       /\ pc' = "return"
       /\ report' = MakeReport(res)

\* the listings of at most maxLen objects whose name ends with .mhtml and at
\* most maxOther other objects, in any order: each object by that flag
Listings(maxLen, maxOther) ==
  {f \in UNION {[1..len -> BOOLEAN] : len \in 0..(maxLen + maxOther)} :
     /\ Cardinality({k \in DOMAIN f : f[k]}) <= maxLen
     /\ Cardinality({k \in DOMAIN f : ~f[k]}) <= maxOther}

\* the objects of a listing: the .mhtml objects are named 1, 2, ... in the
\* order of the listing, the other objects are named 0
Objects(f) ==
  [k \in 1..Len(f) |->
     [name |-> IF f[k] THEN Cardinality({j \in 1..k : f[j]}) ELSE 0, mhtml |-> f[k]]]

AnyObject(blob) == TRUE

\* blob.name.endsWith('.mhtml')
EndsWithMhtml(blob) == blob.mhtml

\* the loop over the listing: allBlobs.push(blob.name) for the matching objects
Matching(objects) ==
  LET kept == SelectSeq(objects, EndsWithMhtml)
  IN  [k \in 1..Len(kept) |-> kept[k].name]

\* for await (const blob of containerClient.listBlobsFlat(...)) and what follows,
\* for a listing of at most maxLen .mhtml blobs and maxOther other objects
ListUpTo(maxLen, maxOther) ==
  /\ proc = "running" /\ pc = "list"
  /\ \E ok \in BOOLEAN, f \in Listings(maxLen, maxOther) :
       IF ok
       THEN LET blobs == Matching(Objects(f))
            IN  /\ allBlobs' = blobs
                /\ listed' = f
                /\ UNCHANGED <<proc, source, i, results>>
                /\ IF Len(blobs) = 0
                   THEN /\ report' = EmptyReport
                        /\ pc' = "return"
                        /\ UNCHANGED <<batch, groups>>
                   ELSE IF options.dryRun
                   THEN /\ report' = DryRunReport(blobs)
                        /\ pc' = "return"
                        /\ UNCHANGED <<batch, groups>>
                   ELSE BatchLoop(blobs, 0, <<>>)
       ELSE Throw
  /\ UNCHANGED <<cfgVars, out, consecutiveTimeouts, since, sleep>>

\* a store that holds nothing but .mhtml objects under the prefix
List == ListUpTo(MaxBlobs, 0)

\* the same step for the longer listings of SpecBatches
ListLong == ListUpTo(MaxListing, 0)

\* a store that also holds objects of other kinds under the prefix
ListMixed == ListUpTo(MaxBlobs, MaxOther)

CollectedReversed(res, tasks) ==
  res \o [k \in 1..Len(tasks) |-> tasks[Len(tasks) + 1 - k].result]

\* batchResults.forEach: one result pushed per member, in batch order
Collected(res, tasks) == res \o [k \in 1..Len(tasks) |-> tasks[k].result]

\* await Promise.allSettled(batchPromises) resolves
Collect ==
  /\ proc = "running" /\ pc = "batch"
  /\ AllSettled(batch)
  /\ results' = Collected(results, batch)
  /\ IF i + Concurrency < Len(allBlobs)
     THEN /\ pc' = "pause"
          /\ sleep' = batchDelayMs
          /\ UNCHANGED <<i, batch, report, groups>>
     ELSE /\ i' = i + Concurrency
          /\ sleep' = 0
          /\ BatchLoop(allBlobs, i', results')
  /\ UNCHANGED <<cfgVars, proc, source, allBlobs, out, consecutiveTimeouts, since,
                 listed>>

\* the pause between two batches is over
PauseDone ==
  /\ proc = "running" /\ pc = "pause"
  /\ Len(groups) <= MaxListing
  /\ i' = i + Concurrency
  /\ sleep' = 0
  /\ BatchLoop(allBlobs, i', results)
  /\ UNCHANGED <<cfgVars, proc, source, allBlobs, results, out, consecutiveTimeouts,
                 since, listed>>

\* ------------------------------------------------- one member of a batch
TaskStep(k, t) ==
  /\ batch' = [batch EXCEPT ![k] = t]
  /\ UNCHANGED <<cfgVars, pc, source, allBlobs, i, results, report, out, groups,
                 listed, sleep>>

\* the wait of delayMs of a member other than the first is over
DelayDone(k) ==
  /\ proc = "running" /\ pc = "batch"
  /\ k \in 1..Len(batch) /\ batch[k].pc = "delay"
  /\ TaskStep(k, [batch[k] EXCEPT !.pc = "download", !.wait = 0])
  /\ UNCHANGED <<proc, consecutiveTimeouts, since>>

DownloadFailureLost(t, src) == [t EXCEPT !.pc = "settled"]

\* downloadBlob threw: the catch of the member returns a failed result that
\* carries the message of the error
DownloadFailure(t, src) ==
  [t EXCEPT !.pc = "settled", !.result = FailedResult(t.blobName, src, "download", 0)]

\* await this.downloadBlob(...) settles, for a blob that is one of docs; on
\* success the source URL is extracted and indexMhtmlFile runs to its first fetch
DownloadDoneOf(k, docs) ==
  /\ proc = "running" /\ pc = "batch"
  /\ k \in 1..Len(batch) /\ batch[k].pc = "download"
  /\ \E ok \in BOOLEAN, doc \in docs :
       IF ok
       THEN TaskStep(k, ForLoop([batch[k] EXCEPT !.doc = doc,
                                                !.sourceUrl = SourceUrlOf(source, doc)],
                                1, source, MaxRetriesArg))
       ELSE TaskStep(k, DownloadFailure(batch[k], source))
  /\ UNCHANGED <<proc, consecutiveTimeouts, since>>

\* a store of documents that all carry a Content-Location header
DownloadDone(k) == DownloadDoneOf(k, {PlainDocument})

\* a store of documents of every kind
DownloadAnyDocument(k) == DownloadDoneOf(k, Documents)

\* ------------------------------------------------------- indexMhtmlFile
OnTimeoutForgotten(c) == c

\* this.consecutiveTimeouts++
OnTimeout(c) == c + 1

OnSuccessKeep(c) == c

\* this.consecutiveTimeouts = 0
OnSuccess(c) == 0

BreakerTripsLate(c, ceiling) == c > ceiling

\* if (this.consecutiveTimeouts >= this.MAX_CONSECUTIVE_TIMEOUTS)
BreakerTrips(c, ceiling) == c >= ceiling

RetryTestAlways(attempt, maxRetries) == TRUE

\* if (attempt < maxRetries) : a backoff wait and another attempt follow
RetryTest(attempt, maxRetries) == attempt < maxRetries

\* response.ok
ResponseOk(status) == status >= 200 /\ status <= 299

HttpFailureRetried(t, src, maxRetries) ==
  IF RetryTest(t.attempt, maxRetries)
  THEN [t EXCEPT !.pc = "backoff", !.wait = NETWORK_BACKOFF_MS * t.attempt]
  ELSE ForLoop(t, t.attempt + 1, src, maxRetries)

\* the else branch of if (response.ok): the failure is returned at once
HttpFailure(t, src, maxRetries) ==
  [t EXCEPT !.pc = "settled",
            !.result = FailedResult(t.blobName, src, "http", t.status)]

\* fetch resolved with a response whose status is in statuses: the timer is
\* cleared, the body is read next
FetchResponseOf(k, statuses) ==
  /\ proc = "running" /\ pc = "batch"
  /\ k \in 1..Len(batch) /\ batch[k].pc = "fetch"
  /\ \E status \in statuses :
       TaskStep(k, [batch[k] EXCEPT !.pc = "body", !.status = status,
                                    !.timer = "cleared"])
  /\ UNCHANGED <<proc, consecutiveTimeouts, since>>

FetchResponse(k) == FetchResponseOf(k, Statuses)

\* the same step against an endpoint that answers every request with a non-2xx
FetchErrorResponse(k) == FetchResponseOf(k, {st \in Statuses : ~ResponseOk(st)})

\* await response.text() is over (a read error is caught): the result is returned
BodyRead(k) ==
  /\ proc = "running" /\ pc = "batch"
  /\ k \in 1..Len(batch) /\ batch[k].pc = "body"
  /\ LET t == batch[k]
     IN  IF ResponseOk(t.status)
         THEN /\ consecutiveTimeouts' = OnSuccess(consecutiveTimeouts)
              /\ TaskStep(k, [t EXCEPT !.pc = "settled",
                                !.result = SuccessResult(t.blobName, source, t.status)])
              /\ since' = 0
         ELSE /\ TaskStep(k, HttpFailure(t, source, MaxRetriesArg))
              /\ UNCHANGED <<consecutiveTimeouts, since>>
  /\ UNCHANGED proc

FetchTimeoutComparesOnRetry(k) ==
  /\ proc = "running" /\ pc = "batch"
  /\ k \in 1..Len(batch) /\ batch[k].pc = "fetch"
  /\ LET t == [batch[k] EXCEPT !.nTimeout = @ + 1, !.timer = "cleared"]
     IN  /\ consecutiveTimeouts' = OnTimeout(consecutiveTimeouts)
         /\ since' = since + 1
         /\ IF RetryTest(t.attempt, MaxRetriesArg)
            THEN IF BreakerTrips(consecutiveTimeouts', MAX_CONSECUTIVE_TIMEOUTS)
                 THEN /\ proc' = "breaker"
                      /\ TaskStep(k, t)
                 ELSE /\ proc' = proc
                      /\ TaskStep(k, [t EXCEPT !.pc = "backoff",
                                          !.wait = TIMEOUT_BACKOFF_MS * t.attempt])
            ELSE /\ proc' = proc
                 /\ TaskStep(k, ForLoop(t, t.attempt + 1, source, MaxRetriesArg))

FetchTimeoutPerDocument(k) ==
  /\ proc = "running" /\ pc = "batch"
  /\ k \in 1..Len(batch) /\ batch[k].pc = "fetch"
  /\ LET t == [batch[k] EXCEPT !.nTimeout = @ + 1, !.timer = "cleared"]
     IN  /\ consecutiveTimeouts' = OnTimeout(consecutiveTimeouts)
         /\ since' = since + 1
         /\ IF BreakerTrips(t.nTimeout, MAX_CONSECUTIVE_TIMEOUTS)
            THEN /\ proc' = "breaker"
                 /\ TaskStep(k, t)
            ELSE /\ proc' = proc
                 /\ IF RetryTest(t.attempt, MaxRetriesArg)
                    THEN TaskStep(k, [t EXCEPT !.pc = "backoff",
                                        !.wait = TIMEOUT_BACKOFF_MS * t.attempt])
                    ELSE TaskStep(k, ForLoop(t, t.attempt + 1, source, MaxRetriesArg))

FetchTimeoutSharedController(k) ==
  /\ proc = "running" /\ pc = "batch"
  /\ k \in 1..Len(batch) /\ batch[k].pc = "fetch"
  /\ LET t == [batch[k] EXCEPT !.nTimeout = @ + 1, !.timer = "cleared"]
         u == IF RetryTest(t.attempt, MaxRetriesArg)
              THEN [t EXCEPT !.pc = "backoff", !.wait = TIMEOUT_BACKOFF_MS * t.attempt]
              ELSE ForLoop(t, t.attempt + 1, source, MaxRetriesArg)
         AbortAll(own) ==
           [j \in 1..Len(batch) |->
              IF j = k THEN own
              ELSE IF batch[j].pc = "fetch" THEN [batch[j] EXCEPT !.timer = "cleared"]
              ELSE batch[j]]
     IN  /\ consecutiveTimeouts' = OnTimeout(consecutiveTimeouts)
         /\ since' = since + 1
         /\ UNCHANGED <<cfgVars, pc, source, allBlobs, i, results, report, out, groups,
                        listed, sleep>>
         /\ IF BreakerTrips(consecutiveTimeouts', MAX_CONSECUTIVE_TIMEOUTS)
            THEN /\ proc' = "breaker"
                 /\ batch' = AbortAll(t)
            ELSE /\ proc' = proc
                 /\ batch' = AbortAll(u)

\* the timer fired and aborted the fetch: catch (fetchError), AbortError branch
FetchTimeout(k) ==
  /\ proc = "running" /\ pc = "batch"
  /\ k \in 1..Len(batch) /\ batch[k].pc = "fetch"
  /\ LET t == [batch[k] EXCEPT !.nTimeout = @ + 1, !.timer = "cleared"]
     IN  /\ consecutiveTimeouts' = OnTimeout(consecutiveTimeouts)
         /\ since' = since + 1
         /\ IF BreakerTrips(consecutiveTimeouts', MAX_CONSECUTIVE_TIMEOUTS)
            THEN /\ proc' = "breaker"
                 /\ TaskStep(k, t)
            ELSE /\ proc' = proc
                 /\ IF RetryTest(t.attempt, MaxRetriesArg)
                    THEN TaskStep(k, [t EXCEPT !.pc = "backoff",
                                        !.wait = TIMEOUT_BACKOFF_MS * t.attempt])
                    ELSE TaskStep(k, ForLoop(t, t.attempt + 1, source, MaxRetriesArg))

\* fetch rejected with another error: catch (fetchError), else branch
FetchNetworkError(k) ==
  /\ proc = "running" /\ pc = "batch"
  /\ k \in 1..Len(batch) /\ batch[k].pc = "fetch"
  /\ LET t == [batch[k] EXCEPT !.timer = "cleared"]
     IN  IF RetryTest(t.attempt, MaxRetriesArg)
         THEN TaskStep(k, [t EXCEPT !.pc = "backoff",
                             !.wait = NETWORK_BACKOFF_MS * t.attempt])
         ELSE TaskStep(k, ForLoop(t, t.attempt + 1, source, MaxRetriesArg))
  /\ UNCHANGED <<proc, consecutiveTimeouts, since>>

\* the backoff wait is over: continue, attempt++ and the loop test
BackoffDone(k) ==
  /\ proc = "running" /\ pc = "batch"
  /\ k \in 1..Len(batch) /\ batch[k].pc = "backoff"
  /\ TaskStep(k, ForLoop(batch[k], batch[k].attempt + 1, source, MaxRetriesArg))
  /\ UNCHANGED <<proc, consecutiveTimeouts, since>>

\* ------------------------------------------------------- RagIndexer
\* const { delayMs = 1000 } = options : the pause between two batches
RAG_DELAY_MS == 1000

\* retryCount * 1000 : the wait before a retry, per retry made so far
RAG_RETRY_MS == 1000

\* the error messages indexDocument can return
RagErrors == {"timeout", "refused"}

NoError == [limit |-> FALSE, detail |-> "none"]

\* what indexDocument returns: { success, id, message } or { success, id, error }
IndexResponse(ok, id, err) == [success |-> ok, id |-> id, error |-> err]

\* error: `リトライ上限到達: ${lastError}`
LimitError(lastError) == [limit |-> TRUE, detail |-> lastError]

RetryLoopTestOneMore(retryCount, maxRetries) == retryCount <= maxRetries + 1

\* while (retryCount <= maxRetries)
RetryLoopTest(retryCount, maxRetries) == retryCount <= maxRetries

\* one request of a batch; sent and last are history: the number of calls of
\* indexDocument made for it and the outcome of the latest
RagTask(id, started) ==
  [id |-> id, pc |-> IF started THEN "send" ELSE "queued",
   retryCount |-> 0, lastError |-> "", wait |-> 0,
   result |-> IndexResponse(FALSE, 0, NoError),
   sent |-> IF started THEN 1 ELSE 0, last |-> "none"]

\* requests.slice(i, i + batchSize) and the start of its processing: the
\* retrying variant maps every request to a promise at once, the other
\* variant awaits the requests one after the other
RagBatch(variant, n, from, batchSize) ==
  [k \in 1..(Min(from + batchSize, n) - from) |->
     RagTask(from + k, variant = "retrying" \/ k = 1)]

RagSettled(tasks) == \A k \in 1..Len(tasks) : tasks[k].pc = "done"

\* the head of the for loop over the batches reached with index from
RagLoop(r, from) ==
  IF from < r.n
  THEN [r EXCEPT !.pc = "batch", !.i = from, !.sleep = 0,
                 !.batch = RagBatch(r.variant, r.n, from, r.batchSize),
                 !.batches = @ + 1]
  ELSE [r EXCEPT !.pc = "returned", !.i = from, !.sleep = 0, !.batch = <<>>]

TallySuccessOnly(r, batchResults) ==
  [r EXCEPT !.results = @ \o [k \in 1..Len(batchResults) |-> batchResults[k].result],
            !.successCount =
               @ + Cardinality({k \in 1..Len(batchResults) : batchResults[k].result.success})]

\* batchResults.forEach: push the result and count it
Tally(r, batchResults) ==
  [r EXCEPT !.results = @ \o [k \in 1..Len(batchResults) |-> batchResults[k].result],
            !.successCount =
               @ + Cardinality({k \in 1..Len(batchResults) : batchResults[k].result.success}),
            !.failedCount =
               @ + Cardinality({k \in 1..Len(batchResults) : ~batchResults[k].result.success})]

\* batchIndexDocuments(requests, options) is called and runs to its first await
RagCall ==
  /\ rag.pc = "call"
  /\ rag' = RagLoop(rag, 0)
  /\ UNCHANGED indexerVars

\* a failed call of indexDocument in the retrying variant: lastError, retryCount++
\* and the loop test, then the wait before the retry or the final result
RagRetry(t, err, maxRetries) ==
  LET u == [t EXCEPT !.lastError = err, !.retryCount = @ + 1, !.last = err]
  IN  IF RetryLoopTest(u.retryCount, maxRetries)
      THEN [u EXCEPT !.pc = "wait", !.wait = u.retryCount * RAG_RETRY_MS]
      ELSE [u EXCEPT !.pc = "done",
                     !.result = IndexResponse(FALSE, u.id, LimitError(u.lastError))]

\* the sequential variant goes on to the next request of the batch
RagStartNext(tasks, k) ==
  IF k < Len(tasks) /\ tasks[k + 1].pc = "queued"
  THEN [tasks EXCEPT ![k + 1] = [@ EXCEPT !.pc = "send", !.sent = 1]]
  ELSE tasks

\* await this.indexDocument(request) settles, with success or with an error
RagRespond(k) ==
  /\ rag.pc = "batch"
  /\ k \in 1..Len(rag.batch) /\ rag.batch[k].pc = "send"
  /\ \E outcome \in {"ok"} \cup RagErrors :
       LET t == rag.batch[k]
           u == IF outcome = "ok"
                THEN [t EXCEPT !.pc = "done", !.last = "ok",
                               !.result = IndexResponse(TRUE, t.id, NoError)]
                ELSE IF rag.variant = "retrying"
                THEN RagRetry(t, outcome, rag.maxRetries)
                ELSE [t EXCEPT !.pc = "done", !.last = outcome,
                               !.result = IndexResponse(FALSE, t.id,
                                            [limit |-> FALSE, detail |-> outcome])]
           tasks == [rag.batch EXCEPT ![k] = u]
       IN  rag' = [rag EXCEPT !.batch =
                     IF rag.variant = "retrying" THEN tasks ELSE RagStartNext(tasks, k)]
  /\ UNCHANGED indexerVars

\* the wait before a retry is over: indexDocument is called again
RagWaitDone(k) ==
  /\ rag.pc = "batch"
  /\ k \in 1..Len(rag.batch) /\ rag.batch[k].pc = "wait"
  /\ rag' = [rag EXCEPT !.batch[k] = [@ EXCEPT !.pc = "send", !.wait = 0, !.sent = @ + 1]]
  /\ UNCHANGED indexerVars

\* every request of the batch has its result: they are pushed and counted,
\* then the loop pauses if another batch follows
RagCollect ==
  /\ rag.pc = "batch"
  /\ RagSettled(rag.batch)
  /\ LET r == Tally(rag, rag.batch)
     IN  rag' = IF r.i + r.batchSize < r.n
                THEN [r EXCEPT !.pc = "pause", !.sleep = RAG_DELAY_MS]
                ELSE RagLoop(r, r.i + r.batchSize)
  /\ UNCHANGED indexerVars

\* the pause between two batches is over
RagPauseDone ==
  /\ rag.pc = "pause"
  /\ rag' = RagLoop(rag, rag.i + rag.batchSize)
  /\ UNCHANGED indexerVars

\* ---------------------------------------------------------------- Next
\* the positions a member of a batch can have
Members ==
  1..(IF MaxConcurrency > DEFAULT_CONCURRENCY THEN MaxConcurrency ELSE DEFAULT_CONCURRENCY)

\* the steps of the coordinator and of the batch loop
Control ==
  \/ Start
  \/ Connect
  \/ Collect
  \/ PauseDone
  \/ Return
  \/ \E k \in Members : DelayDone(k)

\* the steps that do not depend on how the endpoint answers
Pipeline ==
  \/ Control
  \/ \E k \in Members : DownloadDone(k)

\* how the endpoint may answer an attempt when nothing is assumed about it
Endpoint ==
  \/ \E k \in Members : FetchResponse(k)
  \/ \E k \in Members : BodyRead(k)
  \/ \E k \in Members : FetchTimeout(k)
  \/ \E k \in Members : FetchNetworkError(k)

Next ==
  \/ Pipeline
  \/ List
  \/ Endpoint
  \/ \E k \in Members : BackoffDone(k)

Spec == Init /\ [][Next]_vars

\* one partition, not a dry run, listings of up to MaxListing blobs, and a
\* retry budget of at most one attempt: no backoff wait is ever started, so
\* BackoffDone is never enabled (the retry loop is exercised by Spec)
InitBatches ==
  /\ Init
  /\ options.targetSource = "qast"
  /\ ~options.dryRun
  /\ env.MAX_RETRIES \in {0, 1}

NextBatches ==
  \/ Pipeline
  \/ ListLong
  \/ Endpoint

SpecBatches == InitBatches /\ [][NextBatches]_vars

\* an endpoint on which every attempt times out
NextTimeouts ==
  \/ Pipeline
  \/ List
  \/ \E k \in Members : FetchTimeout(k)
  \/ \E k \in Members : BackoffDone(k)

SpecTimeouts == Init /\ [][NextTimeouts]_vars

\* an endpoint that answers every request with a non-2xx response
NextNon2xx ==
  \/ Pipeline
  \/ List
  \/ \E k \in Members : FetchErrorResponse(k)
  \/ \E k \in Members : BodyRead(k)

SpecNon2xx == Init /\ [][NextNon2xx]_vars

\* one partition, a store that also holds objects without the .mhtml extension
\* under the prefix, and an endpoint that answers every request
InitListing ==
  /\ Init
  /\ options.targetSource = "qast"
  /\ env.MAX_RETRIES = 1
  /\ env.MAX_CONSECUTIVE_TIMEOUTS = 1

NextListing ==
  \/ Pipeline
  \/ ListMixed
  \/ \E k \in Members : FetchResponse(k)
  \/ \E k \in Members : BodyRead(k)

SpecListing == InitListing /\ [][NextListing]_vars

\* one partition at a time, a store of documents of every kind, and an
\* endpoint that answers every request
InitUrls ==
  /\ Init
  /\ options.targetSource \in {"qast", "stock"}
  /\ ~options.dryRun
  /\ env.MAX_RETRIES = 1
  /\ env.MAX_CONSECUTIVE_TIMEOUTS = 1

NextUrls ==
  \/ Control
  \/ List
  \/ \E k \in Members : DownloadAnyDocument(k)
  \/ \E k \in Members : FetchResponse(k)
  \/ \E k \in Members : BodyRead(k)

SpecUrls == InitUrls /\ [][NextUrls]_vars

\* one partition, with each setting given or not by the caller and set or
\* not in the environment
InitConfig ==
  /\ Boot
  /\ options.targetSource = "qast" /\ ~options.dryRun
  /\ env.credentials /\ env.RAG_API_ENDPOINT
  /\ options.concurrency \in {Undefined, 1} /\ env.CONCURRENCY \in {Undefined, 2}
  /\ env.DELAY_MS = Undefined
  /\ env.MAX_RETRIES \in {Undefined, 2}
  /\ env.MAX_CONSECUTIVE_TIMEOUTS \in {Undefined, 2}

SpecConfig == InitConfig /\ [][Next]_vars

\* the environment with or without the storage credentials and the endpoint URL
InitStartup ==
  /\ Boot
  /\ options.concurrency # Undefined
  /\ options.delayMs = Undefined /\ env.DELAY_MS = Undefined
  /\ options.maxRetries = Undefined /\ options.maxConsecutiveTimeouts = Undefined
  /\ env.CONCURRENCY = Undefined
  /\ env.MAX_RETRIES = 2
  /\ env.MAX_CONSECUTIVE_TIMEOUTS = 2

SpecStartup == InitStartup /\ [][Next]_vars

\* one partition at a time, a store of documents of every kind, and an
\* endpoint that answers or lets the attempt time out
InitExtract ==
  /\ Init
  /\ options.targetSource \in {"qast", "stock"}
  /\ ~options.dryRun
  /\ env.MAX_RETRIES = 1
  /\ env.MAX_CONSECUTIVE_TIMEOUTS = MaxCeiling

NextExtract ==
  \/ Control
  \/ List
  \/ \E k \in Members : DownloadAnyDocument(k)
  \/ \E k \in Members : FetchResponse(k)
  \/ \E k \in Members : BodyRead(k)
  \/ \E k \in Members : FetchTimeout(k)

SpecExtract == InitExtract /\ [][NextExtract]_vars

\* main: the options object built from the command line and the environment
\* for `--source qast` without --dry-run
MainOptions(a, e) ==
  [targetSource |-> "qast", dryRun |-> FALSE,
   concurrency |-> IF a.concurrency # Undefined
                   THEN ArgInt(a.concurrency, DEFAULT_CONCURRENCY)
                   ELSE EnvInt(e.CONCURRENCY, DEFAULT_CONCURRENCY),
   delayMs |-> IF a.delay # Undefined
               THEN ArgInt(a.delay, DEFAULT_DELAY_MS)
               ELSE EnvInt(e.DELAY_MS, DEFAULT_DELAY_MS),
   maxRetries |-> Undefined,
   maxConsecutiveTimeouts |-> Undefined]

\* the run started from the command line: --concurrency and --delay given
\* or not, CONCURRENCY and DELAY_MS set or not, and an endpoint that answers
InitCli ==
  /\ rag = NoRag
  /\ args \in [concurrency : {Undefined, 0, 2}, delay : {Undefined, 0, 200}]
  /\ env \in [CONCURRENCY : {Undefined, 0, 1},
               DELAY_MS : {Undefined, 300},
               MAX_RETRIES : {1},
               MAX_CONSECUTIVE_TIMEOUTS : {MaxCeiling},
               credentials : {TRUE},
               RAG_API_ENDPOINT : {TRUE}]
  /\ options = MainOptions(args, env)
  /\ Fresh

NextCli ==
  \/ Pipeline
  \/ List
  \/ \E k \in Members : FetchResponse(k)
  \/ \E k \in Members : BodyRead(k)

SpecCli == InitCli /\ [][NextCli]_vars

\* a batchIndexDocuments call of either variant, for up to MaxRequests
\* requests, with batchSize and maxRetries passed by the caller, against an
\* endpoint that may answer or fail each call
InitRag ==
  /\ rag \in {[NoRag EXCEPT !.variant = v, !.n = n, !.batchSize = b, !.maxRetries = m,
                            !.pc = "call"] :
               v \in {"sequential", "retrying"}, n \in 0..MaxRequests,
               b \in 1..MaxConcurrency, m \in 0..MaxRetries}
  /\ args = NoArgs
  /\ env = [CONCURRENCY |-> Undefined, DELAY_MS |-> Undefined, MAX_RETRIES |-> Undefined,
            MAX_CONSECUTIVE_TIMEOUTS |-> Undefined, credentials |-> TRUE,
            RAG_API_ENDPOINT |-> TRUE]
  /\ options = MainOptions(NoArgs, env)
  /\ Fresh

NextRag ==
  \/ RagCall
  \/ \E k \in 1..MaxConcurrency : RagRespond(k)
  \/ \E k \in 1..MaxConcurrency : RagWaitDone(k)
  \/ RagCollect
  \/ RagPauseDone

SpecRag == InitRag /\ [][NextRag]_vars

\* ============================================================== claims
Tasks == 1..Len(batch)

\* the member has come back from indexMhtmlFile (its download succeeded)
Returned(t) == t.pc = "settled" /\ t.result.error # "download"

\* the report in hand is the one a non-dry-run indexSourceMhtmlFiles call returns
NonDryReturn == pc = "return" /\ ~options.dryRun

\* C1: every report returned by a non-dry-run indexSourceMhtmlFiles call has
\* total = success + failed = length of results, whatever was listed and
\* however each document ended.
C1_ReportCounts ==
  NonDryReturn =>
    /\ report.present
    /\ report.total = report.success + report.failed
    /\ report.total = Len(report.results)

C1_Witness ==
  /\ NonDryReturn
  /\ report.success >= 1
  /\ \E j \in 1..Len(report.results) : report.results[j].error = "http"

\* C2: a non-dry-run partition run that completes returns exactly one result
\* per listed blob, the j-th result carrying the name of the j-th listed blob
\* (so no blob is recorded twice); while the run is in progress the results
\* collected so far are those of the first i listed blobs, in order, and the
\* members of the batch in progress are the next blobs of the listing.
C2_OneResultPerBlob ==
  /\ NonDryReturn =>
       /\ Len(report.results) = Len(allBlobs)
       /\ \A j \in 1..Len(allBlobs) :
            /\ report.results[j].blobName = allBlobs[j]
            /\ report.results[j].source = source
  /\ pc \in {"batch", "pause"} =>
       /\ Len(results) <= Len(allBlobs)
       /\ \A j \in 1..Len(results) : results[j].blobName = allBlobs[j]
  /\ pc = "batch" =>
       /\ Len(results) = i
       /\ \A k \in Tasks : batch[k].blobName = allBlobs[i + k]

C2_Witness ==
  /\ NonDryReturn
  /\ options.concurrency = 2
  /\ Len(report.results) = MaxListing
  /\ report.results[2].success /\ ~report.results[1].success

\* C3: when indexAllMhtmlFiles returns, each field of combined is the sum of
\* that field over the partition reports present in the returned object, in
\* a dry run as in a normal run.
PresentSum(o, f) ==
  (IF o.qast.present THEN o.qast[f] ELSE 0) + (IF o.stock.present THEN o.stock[f] ELSE 0)

C3_CombinedIsSum ==
  proc = "completed" =>
    /\ out.combined.total = PresentSum(out, "total")
    /\ out.combined.success = PresentSum(out, "success")
    /\ out.combined.failed = PresentSum(out, "failed")

C3_Witness ==
  /\ proc = "completed"
  /\ out.qast.present /\ out.stock.present
  /\ out.qast.success >= 1 /\ out.qast.failed >= 1
  /\ out.stock.success >= 1 /\ out.stock.failed >= 1

\* C4: on an endpoint where every attempt times out, no more than
\* MAX_CONSECUTIVE_TIMEOUTS timeouts ever happen, the process has left through
\* the fatal exit as soon as that many have happened, and once it has, no
\* member starts another attempt (nothing changes any more).
C4_State ==
  /\ since <= env.MAX_CONSECUTIVE_TIMEOUTS
  /\ consecutiveTimeouts = since
  /\ (since >= env.MAX_CONSECUTIVE_TIMEOUTS) <=> (proc = "breaker")

C4_BreakerStops ==
  /\ []C4_State
  /\ [][proc = "breaker" => (batch' = batch /\ proc' = proc)]_vars

C4_Witness ==
  /\ proc = "breaker"
  /\ env.MAX_CONSECUTIVE_TIMEOUTS = MaxCeiling
  /\ since = MaxCeiling
  /\ Len(batch) = 2

\* C5: the counter is 0 whenever no timeout has happened since the last
\* success, and the breaker has tripped only if at least
\* MAX_CONSECUTIVE_TIMEOUTS timeouts happened since the last success; so N-1
\* timeouts, a success and N-1 more timeouts leave the process running.
C5_SuccessResets ==
  /\ since = 0 => consecutiveTimeouts = 0
  /\ proc = "breaker" => since >= env.MAX_CONSECUTIVE_TIMEOUTS

\* first partition, first batch of two: the first member timed out N-1 times
\* and then succeeded, the second member then timed out N-1 times
C5_Witness ==
  /\ proc = "running" /\ pc = "batch" /\ i = 0
  /\ ~out.qast.present /\ ~out.stock.present
  /\ env.MAX_CONSECUTIVE_TIMEOUTS = MaxCeiling
  /\ Len(batch) = 2
  /\ batch[1].pc = "settled" /\ batch[1].result.success
  /\ batch[1].nTimeout = MaxCeiling - 1
  /\ batch[2].pc = "backoff" /\ batch[2].sent = batch[2].nTimeout
  /\ batch[2].nTimeout = MaxCeiling - 1
  /\ since = MaxCeiling - 1

\* C6: against an endpoint that answers every request with a non-2xx, a
\* member that got an answer has made exactly one attempt, is never in a
\* backoff wait, and comes back failed with the status code of the answer.
C6_Non2xxNoRetry ==
  \A k \in Tasks :
    /\ batch[k].pc # "backoff"
    /\ batch[k].sent <= 1
    /\ batch[k].status # 0 =>
         /\ batch[k].sent = 1 /\ batch[k].attempt = 1 /\ batch[k].wait = 0
         /\ batch[k].pc \in {"body", "settled"}
         /\ batch[k].pc = "settled" =>
              batch[k].result =
                FailedResult(batch[k].blobName, source, "http", batch[k].status)

C6_Witness ==
  \E k \in Tasks :
    /\ batch[k].pc = "settled"
    /\ batch[k].result.error = "http" /\ ~ResponseOk(batch[k].result.statusCode)
    /\ env.MAX_RETRIES = MaxRetries

\* C7: a member whose first k attempts timed out and whose next one, if made,
\* succeeded: it comes back with a success only after k+1 <= maxRetries
\* attempts, and it comes back failed with nothing but timeouts only after
\* exactly maxRetries attempts.
C7_TimeoutsThenSuccess ==
  \A k \in Tasks :
    Returned(batch[k]) =>
      /\ (batch[k].result.success /\ batch[k].sent = batch[k].nTimeout + 1) =>
           batch[k].sent <= env.MAX_RETRIES
      /\ (batch[k].result.error = "retries" /\ batch[k].sent = batch[k].nTimeout) =>
           (~batch[k].result.success /\ batch[k].sent = env.MAX_RETRIES)

C7_Witness ==
  /\ env.MAX_RETRIES = MaxRetries
  /\ \E k \in Tasks :
       /\ Returned(batch[k]) /\ batch[k].result.success
       /\ batch[k].nTimeout = MaxRetries - 1 /\ batch[k].sent = MaxRetries

\* C8: no member ever issues more than maxRetries fetches.
C8_AtMostMaxRetries ==
  \A k \in Tasks : batch[k].sent <= env.MAX_RETRIES

C8_Witness ==
  \E k \in Tasks :
    /\ Returned(batch[k]) /\ batch[k].result.error = "retries"
    /\ batch[k].sent = MaxRetries /\ batch[k].nTimeout = 1
    /\ env.MAX_RETRIES = MaxRetries

\* C9: every member that comes back from indexMhtmlFile has issued at least
\* one fetch, whatever retry budget the environment supplies.
C9_AtLeastOneAttempt ==
  \A k \in Tasks : Returned(batch[k]) => batch[k].sent >= 1

\* C10: the batches started so far are consecutive slices of the listing, each
\* of size concurrency except a smaller last one; a member of a batch is only
\* in progress once every blob of the earlier batches has its settled result
\* in results; and at the end the batches cover the whole listing.
GroupSize(g) == Min(options.concurrency, Len(allBlobs) - (g - 1) * options.concurrency)

C10_GroupsSequential ==
  /\ \A g \in 1..Len(groups) : groups[g] = GroupSize(g) /\ groups[g] >= 1
  /\ pc = "batch" =>
       /\ i = (Len(groups) - 1) * options.concurrency
       /\ Len(batch) = groups[Len(groups)]
       /\ Len(results) = i
       /\ \A j \in 1..i : results[j].source = source /\ results[j].blobName = allBlobs[j]
  /\ pc = "pause" =>
       /\ \A k \in Tasks : batch[k].pc = "settled"
       /\ Len(results) = Len(groups) * options.concurrency
  /\ (NonDryReturn /\ Len(allBlobs) > 0) =>
       /\ Len(groups) * options.concurrency >= Len(allBlobs)
       /\ (Len(groups) - 1) * options.concurrency < Len(allBlobs)

\* five blobs with concurrency 2: the third batch, of one member, is running
C10_Witness ==
  /\ pc = "batch"
  /\ Len(allBlobs) = MaxListing /\ options.concurrency = 2
  /\ Len(groups) = (MaxListing + 1) \div 2
  /\ groups[1] = 2
  /\ Len(batch) < options.concurrency
  /\ \E k \in Tasks : batch[k].pc = "fetch"

\* the number of listed objects whose name ends with .mhtml
MhtmlCount(f) == Cardinality({k \in 1..Len(f) : f[k]})

\* C11: a dry run never makes the connectivity check, never starts a batch
\* (so no download and no submission), never touches the consecutive-timeout
\* counter, and when it listed at least one .mhtml object its report has
\* total = the number of listed .mhtml objects, success = failed = 0 and
\* empty results.
C11_DryRun ==
  options.dryRun =>
    /\ pc # "connect"
    /\ batch = <<>> /\ groups = <<>> /\ results = <<>>
    /\ consecutiveTimeouts = 0
    /\ (pc = "return" /\ MhtmlCount(listed) >= 1) =>
         report = [present |-> TRUE, total |-> MhtmlCount(listed), success |-> 0,
                   failed |-> 0, results |-> <<>>]

C11_Witness ==
  /\ options.dryRun /\ pc = "return"
  /\ MhtmlCount(listed) = MaxBlobs
  /\ Len(listed) > MaxBlobs

\* C12: when the listing holds no object ending with .mhtml (an empty
\* listing, or other objects only), indexSourceMhtmlFiles returns the all-zero
\* report in dry-run mode and in normal mode alike, and no batch is started.
C12_EmptyListing ==
  /\ (pc = "return" /\ MhtmlCount(listed) = 0) =>
       /\ proc = "running"
       /\ report = [present |-> TRUE, total |-> 0, success |-> 0, failed |-> 0,
                    results |-> <<>>]
  /\ pc \in {"batch", "pause"} => MhtmlCount(listed) >= 1

C12_Witness ==
  /\ pc = "return" /\ ~options.dryRun
  /\ Len(listed) >= 1 /\ MhtmlCount(listed) = 0

\* C13: with the selector qast (or stock) only that partition is ever run,
\* the report of the other one stays absent, and when indexAllMhtmlFiles
\* returns the combined totals are those of the one report.
SingleOnly(sel, other) ==
  options.targetSource = sel =>
    /\ source \in {"none", sel}
    /\ ~out[other].present
    /\ proc = "completed" =>
         /\ out[sel].present
         /\ out.combined.total = out[sel].total
         /\ out.combined.success = out[sel].success
         /\ out.combined.failed = out[sel].failed

C13_SinglePartition == SingleOnly("qast", "stock") /\ SingleOnly("stock", "qast")

C13_Witness ==
  /\ proc = "completed" /\ options.targetSource = "stock"
  /\ out.stock.total = MaxBlobs
  /\ out.combined.success >= 1 /\ out.combined.failed >= 1

\* C14: a member whose download throws settles with a failed result that
\* carries its blob name and the error, having issued no fetch; the step
\* leaves the process running and the other members untouched; and the
\* report of the partition still holds one result per listed blob, in order.
C14_State ==
  /\ \A k \in Tasks :
       batch[k].result.error = "download" =>
         /\ batch[k].pc = "settled" /\ batch[k].sent = 0
         /\ batch[k].result = FailedResult(allBlobs[i + k], source, "download", 0)
  /\ NonDryReturn =>
       /\ Len(report.results) = Len(allBlobs)
       /\ \A j \in 1..Len(allBlobs) :
            report.results[j].blobName = allBlobs[j] /\ report.results[j].source = source

C14_Step ==
  \A k \in Tasks :
    (batch[k].pc = "download" /\ batch'[k].pc = "settled" /\ MaxRetriesArg >= 1) =>
      /\ batch'[k].result.error = "download"
      /\ proc' = "running" /\ pc' = "batch"
      /\ \A j \in Tasks \ {k} : batch'[j] = batch[j]

C14_DownloadFailureRecorded == []C14_State /\ [][C14_Step]_vars

C14_Witness ==
  /\ NonDryReturn /\ Concurrency = 1
  /\ Len(report.results) = MaxBlobs
  /\ report.results[1].error = "download"
  /\ report.results[MaxBlobs].success

\* C15: when the connectivity check or the listing fails, the call returns
\* no report (nothing is recorded for the partition) and no batch was
\* started: nothing of the partition was downloaded or submitted.
C15_ListingFailureThrown ==
  proc = "failed" =>
    /\ pc \in {"connect", "list"}
    /\ report = NoReport /\ ~out[source].present
    /\ allBlobs = <<>> /\ batch = <<>> /\ results = <<>> /\ groups = <<>>

C15_Witness ==
  /\ proc = "failed" /\ pc = "list" /\ source = "stock"
  /\ out.qast.present /\ out.qast.total = MaxBlobs

\* C16 as claimed: with the selector all, the process does not end, by
\* completion or by a failure, before the stock partition has been started.
C16_StockStillRuns ==
  (options.targetSource = "all" /\ proc \in {"completed", "failed"}) => source = "stock"

\* C16 as amended: with the selector all, stock is started exactly when qast
\* has returned its report, whatever failures that report counts, and a
\* completed run holds both reports; a connectivity or listing error of qast
\* ends the run with stock never started.
C16_State ==
  options.targetSource = "all" =>
    /\ source = "stock" => out.qast.present
    /\ proc = "completed" => (out.qast.present /\ out.stock.present)
    /\ (proc = "failed" /\ source = "qast") =>
         (pc \in {"connect", "list"} /\ ~out.qast.present /\ ~out.stock.present)

C16_Step ==
  (options.targetSource = "all" /\ source = "qast" /\ pc = "return") =>
    (source' = "stock" /\ proc' = "running" /\ pc' \in {"connect", "list"})

C16_DocumentFailuresOnly == []C16_State /\ [][C16_Step]_vars

C16_Witness ==
  /\ options.targetSource = "all" /\ source = "stock" /\ pc = "batch"
  /\ out.qast.total = MaxBlobs /\ out.qast.failed = MaxBlobs
  /\ \E k \in Tasks : batch[k].pc = "fetch"

\* C17: the process ends with the success status exactly when
\* indexAllMhtmlFiles has returned, whatever failures the reports count; the
\* breaker ends it inside a batch, with no report for the partition in
\* progress and the results of that batch not collected; and once the process
\* has ended, one way or the other, nothing happens any more.
C17_State ==
  /\ pc = "end" <=> proc = "completed"
  /\ proc = "breaker" =>
       /\ pc = "batch" /\ source \in {"qast", "stock"}
       /\ report = NoReport /\ ~out[source].present
       /\ Len(results) = i /\ i < Len(allBlobs)
       /\ source = "qast" => ~out.stock.present

C17_ExitStatus == []C17_State /\ [][proc = "running"]_vars

C17_Witness ==
  /\ proc = "completed" /\ options.targetSource = "all"
  /\ out.qast.failed >= 1 /\ out.stock.failed >= 1

\* C18 as claimed: every submission of a document without a Content-Location
\* header carries the URL derived from the blob name, and every submission of
\* a document with the header carries the header's URL.
C18_FallbackAlways ==
  \A k \in Tasks :
    batch[k].sent >= 1 =>
      /\ batch[k].doc.header = "absent" => batch[k].source_url \in {"qast-url", "stock-url"}
      /\ batch[k].doc.header = "url" => batch[k].source_url = "location-url"

\* C18 as amended: a submission carries the text found after Content-Location:
\* when there is one; otherwise the URL derived from the blob name when the
\* name has the form of the partition (qast_<digits>.mhtml in qast,
\* stock_<digits>.mhtml in stock); otherwise no source_url at all.
C18_SourceUrl ==
  \A k \in Tasks :
    batch[k].sent >= 1 =>
      /\ batch[k].doc.header = "url" => batch[k].source_url = "location-url"
      /\ batch[k].doc.header \in {"absent", "blank"} =>
           batch[k].source_url =
             IF source = "qast" /\ batch[k].doc.name = "qast_id" THEN "qast-url"
             ELSE IF source = "stock" /\ batch[k].doc.name = "stock_id" THEN "stock-url"
             ELSE "none"

\* the scenario: qast lists two blobs, both accepted with 200; the first has
\* the header, the second (b.mhtml) has none and a name of neither form
C18_Witness ==
  /\ source = "qast" /\ pc = "batch" /\ Len(allBlobs) = 2 /\ Len(batch) = 2
  /\ \A k \in Tasks : batch[k].pc = "settled" /\ batch[k].result.success
  /\ batch[1].doc.header = "url" /\ batch[1].source_url = "location-url"
  /\ batch[2].doc = [header |-> "absent", name |-> "plain"]
  /\ batch[2].source_url = "none"

\* explicit value if given, else the environment value, else the default
Resolve(explicit, envValue, default) ==
  IF explicit # Undefined THEN explicit
  ELSE IF envValue # Undefined THEN envValue
  ELSE default

\* what a run shows of the three settings that steer it: every batch has the
\* size the concurrency allows, no member makes more attempts than the retry
\* budget, and the breaker trips exactly at the ceiling
Observed(concurrency, maxRetries, ceiling) ==
  /\ \A g \in 1..Len(groups) :
       groups[g] = Min(concurrency, Len(allBlobs) - (g - 1) * concurrency)
  /\ \A k \in Tasks : batch[k].sent <= maxRetries
  /\ consecutiveTimeouts <= ceiling
  /\ (proc = "breaker") <=> (consecutiveTimeouts >= ceiling)

C20_ConfigErrorFatal ==
  (~env.credentials \/ ~env.RAG_API_ENDPOINT) =>
    /\ pc \in {"main", "connect"}
    /\ proc # "completed"
    /\ listed = <<>> /\ batch = <<>>

\* C21: two members of a batch that read documents of the same kind got the
\* same source URL, whatever the counter was when each was read; and the step
\* in which a member reads its document and extracts the URL changes nothing
\* but that member: not the counter, not the results, not the other members.
C21_State ==
  \A j, k \in Tasks :
    (batch[j].doc # NoDocument /\ batch[j].doc = batch[k].doc) =>
      (batch[j].sourceUrl = batch[k].sourceUrl /\ batch[j].source_url = batch[k].source_url)

C21_Step ==
  \A k \in Tasks :
    (pc' = "batch" /\ Len(batch') = Len(batch)
       /\ batch[k].doc = NoDocument /\ batch'[k].doc # NoDocument) =>
      /\ consecutiveTimeouts' = consecutiveTimeouts /\ since' = since
      /\ results' = results /\ out' = out /\ proc' = proc
      /\ \A j \in Tasks \ {k} : batch'[j] = batch[j]

TimedOut(k) == batch'[k].nTimeout = batch[k].nTimeout + 1

Succeeded(k) == ~batch[k].result.success /\ batch'[k].result.success

C22_Step ==
  /\ consecutiveTimeouts' # consecutiveTimeouts =>
       /\ Len(batch') = Len(batch)
       /\ \/ consecutiveTimeouts' = consecutiveTimeouts + 1 /\ \E k \in Tasks : TimedOut(k)
          \/ consecutiveTimeouts' = 0 /\ \E k \in Tasks : Succeeded(k)
  /\ \A k \in Tasks :
       (pc' = "batch" /\ Len(batch') = Len(batch)) =>
         /\ TimedOut(k) => consecutiveTimeouts' = consecutiveTimeouts + 1
         /\ Succeeded(k) => consecutiveTimeouts' = 0
         /\ (batch[k].pc \in {"fetch", "body"} /\ batch'[k] # batch[k]
              /\ ~TimedOut(k) /\ ~Succeeded(k)) =>
              consecutiveTimeouts' = consecutiveTimeouts

C22_State == consecutiveTimeouts = since

C22_CounterIsTimeoutsSinceSuccess ==
  []C22_State /\ [][C22_Step]_vars

\* one timeout, then a non-2xx answer to one member and a network error of another
C22_Witness ==
  /\ consecutiveTimeouts = 1 /\ Len(batch) = 2
  /\ batch[1].nTimeout = 1 /\ batch[1].pc = "settled" /\ batch[1].result.error = "http"
  /\ batch[2].nTimeout = 0 /\ batch[2].pc = "backoff"

\* C23: with two members of a batch in flight at once, the counter is below
\* the ceiling in every state in which the process is running, the process
\* has left through the breaker in every state in which the counter has
\* reached it, and from such a state no member takes another step.
C23_State ==
  /\ proc = "running" => consecutiveTimeouts < env.MAX_CONSECUTIVE_TIMEOUTS
  /\ consecutiveTimeouts >= env.MAX_CONSECUTIVE_TIMEOUTS => proc = "breaker"

C23_Step == consecutiveTimeouts >= env.MAX_CONSECUTIVE_TIMEOUTS => batch' = batch

C23_AtomicIncrementAndCompare == []C23_State /\ [][C23_Step]_vars

\* the two timeouts that reach the ceiling are those of two different members
C23_Witness ==
  /\ proc = "breaker" /\ env.MAX_CONSECUTIVE_TIMEOUTS = 2 /\ Len(batch) = 2
  /\ batch[1].nTimeout = 1 /\ batch[2].nTimeout = 1
  /\ batch[1].pc \in {"fetch", "backoff", "settled"} /\ batch[2].pc = "fetch"

\* C24: at every moment of a partition run the members that have not settled
\* are at most as many as the configured concurrency, they are the blobs
\* i+1 .. i+Len(batch) of the listing (one group), none is unsettled while
\* the batch loop is elsewhere than awaiting the group, and the loop index
\* moves on only from a group all of whose members have settled.
Unsettled == {k \in Tasks : batch[k].pc # "settled"}

C24_State ==
  /\ Len(batch) <= Concurrency
  /\ Cardinality(Unsettled) <= Concurrency
  /\ pc # "batch" => Unsettled = {}
  /\ pc = "batch" =>
       /\ i + Len(batch) <= Len(allBlobs)
       /\ \A k \in Tasks : batch[k].blobName = allBlobs[i + k]

C24_Step == (i' # i \/ batch' = <<>>) => Unsettled = {}

C24_AtMostConcurrencyInOneGroup == []C24_State /\ [][C24_Step]_vars

\* the second group of a listing, both of its members with a request in flight
C24_Witness ==
  /\ pc = "batch" /\ i = 2 /\ Concurrency = 2 /\ Len(groups) = 2
  /\ Len(batch) = 2 /\ batch[1].pc = "fetch" /\ batch[2].pc = "fetch"

\* C25: a step in which the timer of one member's attempt expires, and which
\* does not trip the breaker, leaves every sibling as it was (its request in
\* flight, its timer armed, its count of timeouts); and while the process
\* runs every request in flight has its own armed timer.
C25_State ==
  proc = "running" => \A k \in Tasks : batch[k].pc = "fetch" => batch[k].timer = "armed"

C25_Step ==
  \A k \in Tasks :
    (pc' = "batch" /\ Len(batch') = Len(batch) /\ TimedOut(k) /\ proc' = "running") =>
      /\ batch[k].pc = "fetch" /\ batch[k].timer = "armed" /\ batch'[k].timer = "cleared"
      /\ \A j \in Tasks \ {k} : batch'[j] = batch[j]

C25_TimeoutCancelsOwnRequestOnly == []C25_State /\ [][C25_Step]_vars

\* one member timed out and waits to retry, its sibling's request is still in flight
C25_Witness ==
  /\ proc = "running" /\ pc = "batch" /\ Len(batch) = 2
  /\ batch[1].pc = "backoff" /\ batch[1].nTimeout = 1 /\ batch[1].timer = "cleared"
  /\ batch[2].pc = "fetch" /\ batch[2].nTimeout = 0 /\ batch[2].timer = "armed"

\* C26: with selector "all" the stock partition is current only once the
\* report of qast has been returned and kept, nothing is listed, downloaded
\* or submitted for a partition other than the current one, and the current
\* partition changes only from none to qast at the start and from qast to
\* stock at the return of the qast run, with no member unsettled.
C26_State ==
  options.targetSource = "all" =>
    /\ source = "none" => (pc = "main" /\ batch = <<>> /\ allBlobs = <<>>)
    /\ source = "qast" => (~out.qast.present /\ ~out.stock.present)
    /\ source = "stock" => out.qast.present
    /\ \A k \in 1..Len(results) : results[k].source = source
    /\ \A k \in Tasks : batch[k].result.source \in {"none", source}

C26_Step ==
  (options.targetSource = "all" /\ source' # source) =>
    \/ source = "none" /\ source' = "qast" /\ pc = "main"
    \/ /\ source = "qast" /\ source' = "stock" /\ pc = "return"
       /\ Unsettled = {} /\ out'.qast.present
       /\ pc' \in {"connect", "list"} /\ allBlobs' = <<>> /\ batch' = <<>>

C26_QastThenStock == []C26_State /\ [][C26_Step]_vars

\* a stock document is being submitted after a qast run of two documents returned
C26_Witness ==
  /\ options.targetSource = "all" /\ source = "stock" /\ pc = "batch"
  /\ out.qast.present /\ out.qast.total = 2 /\ ~out.stock.present
  /\ Len(batch) >= 1 /\ batch[1].pc = "fetch"

\* C27: every submission attempt is bounded by its timeout: while the process
\* runs, a member whose attempt has not completed (its request is in flight,
\* or its response is received and not yet read) has its timer armed, so
\* that the expiry cancels the call and classifies the attempt as a timeout.
InFlight(t) == t.pc \in {"fetch", "body"}

C27_AttemptBounded ==
  proc = "running" => \A k \in Tasks : InFlight(batch[k]) => batch[k].timer = "armed"

\* C28: a member waits between two attempts only after attempt a with
\* 1 <= a < maxRetries, for 2000*a ms when attempt a timed out and for
\* 1000*a ms when its fetch failed otherwise, and attempt a+1 follows the
\* wait; after the last attempt and after an HTTP response the member
\* settles without a wait.
Budget == Resolve(Undefined, env.MAX_RETRIES, 3)

C28_State ==
  \A k \in Tasks :
    batch[k].pc = "backoff" =>
      /\ 1 <= batch[k].attempt /\ batch[k].attempt < Budget
      /\ batch[k].wait \in {2000 * batch[k].attempt, 1000 * batch[k].attempt}

C28_Step ==
  \A k \in Tasks :
    (pc' = "batch" /\ Len(batch') = Len(batch) /\ proc' = "running"
       /\ batch'[k] # batch[k]) =>
      LET a == batch[k].attempt
      IN  /\ batch[k].pc = "fetch" /\ TimedOut(k) =>
               IF a < Budget
               THEN batch'[k].pc = "backoff" /\ batch'[k].wait = 2000 * a
               ELSE batch'[k].pc = "settled"
          /\ batch[k].pc = "fetch" /\ ~TimedOut(k) /\ batch'[k].pc # "body" =>
               IF a < Budget
               THEN batch'[k].pc = "backoff" /\ batch'[k].wait = 1000 * a
               ELSE batch'[k].pc = "settled"
          /\ batch[k].pc = "body" => batch'[k].pc = "settled"
          /\ batch[k].pc = "backoff" =>
               batch'[k].pc = "fetch" /\ batch'[k].attempt = a + 1
          /\ batch'[k].pc = "backoff" => batch[k].pc = "fetch"

C28_BackoffWaits == []C28_State /\ [][C28_Step]_vars

\* default budget of 3: one member waits 4000 ms after its second attempt
\* timed out, the other 1000 ms after the network error of its first
C28_Witness ==
  /\ env.MAX_RETRIES = Undefined /\ Len(batch) = 2
  /\ batch[1].pc = "backoff" /\ batch[1].attempt = 2 /\ batch[1].wait = 4000
  /\ batch[2].pc = "backoff" /\ batch[2].attempt = 1 /\ batch[2].wait = 1000
  /\ batch[2].nTimeout = 0

\* C29: the batch loop pauses exactly when a group has settled and another
\* one follows, for 500 ms whatever delayMs is; the first group starts
\* straight from the listing, every later group from the end of a pause,
\* and the report is returned straight from the last group.
GroupSizeLimit == Resolve(options.concurrency, env.CONCURRENCY, 3)

C29_State ==
  /\ pc = "pause" =>
       /\ sleep = 500
       /\ groups # <<>> /\ Unsettled = {}
       /\ i + GroupSizeLimit < Len(allBlobs)
  /\ pc # "pause" => sleep = 0

C29_Step ==
  /\ Len(groups') = Len(groups) + 1 =>
       IF groups = <<>> THEN pc = "list" /\ sleep = 0
       ELSE pc = "pause" /\ sleep = 500
  /\ (pc = "batch" /\ pc' # "batch") =>
       IF i + GroupSizeLimit < Len(allBlobs)
       THEN pc' = "pause" /\ sleep' = 500
       ELSE pc' = "return" /\ sleep' = 0
  /\ pc = "pause" => pc' \in {"pause", "batch"}

C29_FixedPauseBetweenGroups == []C29_State /\ [][C29_Step]_vars

\* delayMs = 200 was passed, and the loop pauses 500 ms after its first group
C29_Witness ==
  /\ options.delayMs = 200 /\ pc = "pause" /\ sleep = 500
  /\ Len(groups) = 1 /\ Len(allBlobs) = 2 /\ i = 0

\* C30: when a group starts its first member is downloading and every other
\* member waits delayMs (the value passed, else DELAY_MS, else 500) before
\* its download starts; a member's first request is sent by the step that
\* ends its own download and extraction, never before.
ItemDelay == Resolve(options.delayMs, env.DELAY_MS, 500)

Submitting(t) == t.sent >= 1 \/ t.pc \in {"fetch", "body", "backoff"}

C30_State ==
  \A k \in Tasks :
    /\ k = 1 => batch[k].pc # "delay"
    /\ batch[k].pc = "delay" => (k > 1 /\ batch[k].wait = ItemDelay)
    /\ batch[k].pc \in {"delay", "download"} =>
         (batch[k].sent = 0 /\ batch[k].doc = NoDocument /\ batch[k].sourceUrl = "unset")
    /\ Submitting(batch[k]) =>
         (batch[k].doc # NoDocument /\ batch[k].sourceUrl # "unset")

C30_Step ==
  /\ Len(groups') = Len(groups) + 1 =>
       \A k \in 1..Len(batch') :
         IF k = 1 THEN batch'[k].pc = "download"
         ELSE batch'[k].pc = "delay" /\ batch'[k].wait = ItemDelay
  /\ (pc' = "batch" /\ groups' = groups) =>
       \A k \in Tasks :
         /\ (batch'[k].pc = "download" /\ batch[k].pc # "download") =>
              batch[k].pc = "delay"
         /\ (batch'[k].sent >= 1 /\ batch[k].sent = 0) =>
              (batch[k].pc = "download" /\ batch'[k].doc # NoDocument)

C30_PacingWithinGroup == []C30_State /\ [][C30_Step]_vars

\* delayMs = 200: the second member still waits while the first has a request in flight
C30_Witness ==
  /\ options.delayMs = 200 /\ pc = "batch" /\ Len(batch) = 2
  /\ batch[1].pc = "fetch" /\ batch[1].sent = 1
  /\ batch[2].pc = "delay" /\ batch[2].wait = 200

\* C31: when a member leaves indexMhtmlFile because its last attempt failed,
\* its result has success = false, the document reference, the partition tag,
\* and as error the detail of that last failure: the timeout, or the network
\* error of the final attempt.
Exhausted(k) ==
  /\ pc' = "batch" /\ Len(batch') = Len(batch) /\ proc' = "running"
  /\ batch[k].pc = "fetch" /\ batch'[k].pc = "settled"

C31_Step ==
  \A k \in Tasks :
    Exhausted(k) =>
      /\ ~batch'[k].result.success
      /\ batch'[k].result.blobName = batch[k].blobName
      /\ batch'[k].result.source = source
      /\ batch'[k].result.error = IF TimedOut(k) THEN "timeout" ELSE "network"

C31_LastErrorDetail == [][C31_Step]_vars

\* C32: no step of the coordinator or of the batch loop (the start or the
\* return of a partition run, a listing, the end of a group, a pause)
\* changes the counter, so what qast left in it still counts during stock.
C32_Step ==
  (source' # source \/ pc' # pc \/ i' # i \/ out' # out) =>
    consecutiveTimeouts' = consecutiveTimeouts

C32_CounterOutlivesPartition == [][C32_Step]_vars

\* ceiling 2: the breaker trips in stock at the first timeout there, the
\* other timeout being the one qast ended with
C32_Witness ==
  /\ options.targetSource = "all" /\ source = "stock" /\ out.qast.present
  /\ env.MAX_CONSECUTIVE_TIMEOUTS = 2 /\ proc = "breaker"
  /\ i = 0 /\ Len(batch) = 1 /\ batch[1].nTimeout = 1 /\ batch[1].sent = 1
  /\ out.qast.failed >= 1

\* C34: against an endpoint on which every attempt times out, the process
\* has left through the breaker as soon as the timeouts of the members of a
\* group, added up over the members, reach the ceiling, whatever the share
\* of each member; and it leaves with the counter equal to the ceiling.
TimeoutsOfGroup ==
  LET sum[k \in 0..Len(batch)] == IF k = 0 THEN 0 ELSE sum[k - 1] + batch[k].nTimeout
  IN  sum[Len(batch)]

C34_CounterSharedByDocuments ==
  /\ TimeoutsOfGroup >= env.MAX_CONSECUTIVE_TIMEOUTS => proc = "breaker"
  /\ proc = "breaker" => consecutiveTimeouts = env.MAX_CONSECUTIVE_TIMEOUTS

\* ceiling 2, budget 2: two members of one group each timed out on their
\* first attempt, and the second of these timeouts tripped the breaker
C34_Witness ==
  /\ proc = "breaker" /\ env.MAX_CONSECUTIVE_TIMEOUTS = 2 /\ env.MAX_RETRIES = 2
  /\ Len(batch) = 2 /\ results = <<>>
  /\ \A k \in Tasks : batch[k].nTimeout = 1 /\ batch[k].attempt = 1 /\ batch[k].sent = 1

\* C35: with a selector that is none of qast, stock and all, no partition is
\* ever entered, nothing is listed, downloaded or submitted, the run ends
\* normally, and what it returns has no partition report and combined totals 0.
C35_UnknownSelectorRunsNothing ==
  options.targetSource \notin {"qast", "stock", "all"} =>
    /\ source = "none" /\ pc \in {"main", "end"}
    /\ listed = <<>> /\ allBlobs = <<>> /\ batch = <<>> /\ results = <<>> /\ groups = <<>>
    /\ ~out.qast.present /\ ~out.stock.present
    /\ out.combined = [total |-> 0, success |-> 0, failed |-> 0]
    /\ proc = (IF pc = "end" THEN "completed" ELSE "running")

\* the run with an unrecognized selector has returned
C35_Witness ==
  /\ options.targetSource = "other" /\ pc = "end" /\ proc = "completed"
  /\ source = "none" /\ ~out.qast.present /\ ~out.stock.present

\* C33: for every concurrency the configuration supplies, each pass of the
\* batch loop awaits a group of at least one of the listed objects still to
\* be processed, each later pass starts further in the listing than the one
\* before, and the report returned counts every listed object.
C33_State ==
  /\ pc = "batch" => (batch # <<>> /\ i < Len(allBlobs))
  /\ (pc = "return" /\ allBlobs # <<>>) => report.total = Len(allBlobs)

C33_Step == (Len(groups') = Len(groups) + 1 /\ groups # <<>>) => i' > i

C33_LoopIndexAdvances == []C33_State /\ [][C33_Step]_vars

\* C36: a value given with --concurrency (a positive number) is the size of
\* the groups of the run, and a value given with --delay (0 or more) is the
\* delay a member other than the first waits before its download.
C36_ExplicitValueUsed ==
  /\ args.concurrency >= 1 =>
       \A g \in 1..Len(groups) :
         groups[g] = Min(args.concurrency, Len(allBlobs) - (g - 1) * args.concurrency)
  /\ args.delay >= 0 =>
       \A k \in Tasks : batch[k].pc = "delay" => batch[k].wait = args.delay

\* C37: in both variants of batchIndexDocuments the results are at every
\* moment those of the requests 1..Len(results) in request order, the call
\* returns with success + failed = length of results = number of requests
\* and with counts that agree with the results, and a batch is started only
\* when every request of the batch before has settled and been collected.
RagTasks == 1..Len(rag.batch)

RagCount(ok) == Cardinality({j \in 1..Len(rag.results) : rag.results[j].success = ok})

C37_State ==
  /\ \A j \in 1..Len(rag.results) : rag.results[j].id = j
  /\ rag.pc = "batch" =>
       /\ Len(rag.results) = rag.i
       /\ \A k \in RagTasks : rag.batch[k].id = rag.i + k
  /\ rag.pc = "returned" =>
       /\ rag.successCount + rag.failedCount = Len(rag.results)
       /\ Len(rag.results) = rag.n
       /\ rag.successCount = RagCount(TRUE) /\ rag.failedCount = RagCount(FALSE)

C37_Step ==
  rag'.batches # rag.batches =>
    /\ RagSettled(rag.batch)
    /\ Len(rag'.results) = rag'.i
    /\ \A k \in 1..Len(rag'.batch) : rag'.batch[k].sent <= 1

C37_BatchCounts == []C37_State /\ [][C37_Step]_vars

\* three requests in batches of two, awaited one after the other: the call
\* has returned with one failure between two successes
C37_Witness ==
  /\ rag.variant = "sequential" /\ rag.pc = "returned"
  /\ rag.n = 3 /\ rag.batchSize = 2 /\ rag.batches = 2
  /\ rag.successCount = 2 /\ rag.failedCount = 1
  /\ ~rag.results[2].success /\ rag.results[2].error.detail = "timeout"

\* C38: in the retrying variant indexDocument is called for a request at
\* most maxRetries + 1 times and never again after a success; retry r is
\* preceded by a wait of r * 1000 ms; a request whose maxRetries + 1 calls
\* all failed gets a failed result that carries the error of the last call.
C38_State ==
  rag.variant = "retrying" =>
    \A k \in RagTasks :
      LET t == rag.batch[k]
      IN  /\ t.sent <= rag.maxRetries + 1
          /\ t.pc = "send" => t.sent = t.retryCount + 1
          /\ t.pc = "wait" =>
               /\ 1 <= t.retryCount /\ t.retryCount <= rag.maxRetries
               /\ t.sent = t.retryCount
               /\ t.wait = t.retryCount * 1000
          /\ t.pc = "done" =>
               IF t.result.success
               THEN t.last = "ok" /\ t.result.id = t.id
               ELSE /\ t.sent = rag.maxRetries + 1
                    /\ t.last \in RagErrors
                    /\ t.result = [success |-> FALSE, id |-> t.id,
                                   error |-> [limit |-> TRUE, detail |-> t.last]]

C38_Step ==
  (rag.variant = "retrying" /\ rag'.batches = rag.batches
     /\ Len(rag'.batch) = Len(rag.batch)) =>
    \A k \in RagTasks :
      /\ rag.batch[k].last = "ok" => rag'.batch[k] = rag.batch[k]
      /\ rag'.batch[k].sent # rag.batch[k].sent =>
           /\ rag'.batch[k].sent = rag.batch[k].sent + 1
           /\ rag.batch[k].pc = "wait"
           /\ rag.batch[k].wait = rag.batch[k].sent * 1000

C38_RetryingVariant == []C38_State /\ [][C38_Step]_vars

\* maxRetries = 2: one request failed three times, the last time refused,
\* and its neighbour succeeded at its first retry
C38_Witness ==
  /\ rag.variant = "retrying" /\ rag.maxRetries = 2 /\ Len(rag.batch) = 2
  /\ rag.batch[1].pc = "done" /\ rag.batch[1].sent = 3
  /\ rag.batch[1].result.error = [limit |-> TRUE, detail |-> "refused"]
  /\ rag.batch[2].pc = "done" /\ rag.batch[2].sent = 2 /\ rag.batch[2].result.success

====
